---- MODULE Spec2Model ----
(***************************************************************************)
(* A model of command_runner (src/command_runner/command_runner.py): the   *)
(* weekly activation mask (Days), the task record and its activation       *)
(* predicate (Task), the executor (run_task) and the scheduling loop       *)
(* (Runner.run) with its pool of worker processes.                         *)
(*                                                                         *)
(* Conventions.                                                            *)
(*  - A Python str that the code slices or parses is a sequence of         *)
(*    one-character strings: "mo" is <<"m", "o">>.  command and owner are  *)
(*    only compared and handed to the shell: they stay TLA+ strings.       *)
(*  - An instant (datetime) is a number of seconds since a Monday 00:00:00;*)
(*    a timedelta is a number of seconds.                                  *)
(*  - Optional[datetime] is a sequence of length 0 (None) or 1.            *)
(*  - The outcome of a call is a record [exc, val]: exc = "None" and val   *)
(*    the returned value, or exc the name of the exception raised.         *)
(***************************************************************************)
EXTENDS Integers, Sequences, FiniteSets, TLC

VARIABLES
    tasks,          \* Runner.tasks: the master list of Task records
    check_interval, \* Runner.config["check_interval"], seconds
    clock,          \* what datetime.now() returns at this moment
    pc,             \* position of the coordinator in Runner.run, or of a call
    cycle,          \* number of iterations of the while loop begun so far
    batch,          \* the local list `tasks` of run(): the selected records
    handed,         \* how many entries of batch the pool has handed to workers
    running,        \* batch indices a worker process is executing now
    results,        \* per batch index, the outcome its worker sent back
    updated_tasks,  \* the local list pool.map returned
    log,            \* per batch index, the subprocess runs begun in this cycle
    history,        \* per task definition that has run: when its latest run ended
    call,           \* the arguments of the function call under test
    ret             \* the outcome of the function call under test

vars == << tasks, check_interval, clock, pc, cycle, batch, handed, running,
           results, updated_tasks, log, history, call, ret >>

sched == << tasks, check_interval, clock, cycle, batch, handed, running,
            results, updated_tasks, log, history >>

-----------------------------------------------------------------------------
(* Outcomes of calls                                                       *)

Return(v) == [exc |-> "None", val |-> v]

Raise(e, v) == [exc |-> e, val |-> v]

Returned(r) == r.exc = "None"

Min(a, b) == IF a <= b THEN a ELSE b

-----------------------------------------------------------------------------
(* Days                                                                    *)

DATES == << <<"m", "o">>, <<"t", "u">>, <<"w", "e">>, <<"t", "h">>,
            <<"f", "r">>, <<"s", "a">>, <<"s", "u">> >>

\* date_string[y : y + 2], Python slicing: clipped at the end of the string
Slice2(s, y) == SubSeq(s, y + 1, Min(y + 2, Len(s)))

\* [date_string[y : y + 2] for y in range(0, len(date_string), 2)]
DaySlices(date_string) ==
    [k \in 1..((Len(date_string) + 1) \div 2) |-> Slice2(date_string, 2 * (k - 1))]

\* A faulty variant of DaysPostInit: compares the first character of the slice only.
DaysPostInitFirstChar(date_string) ==
    LET temp == DaySlices(date_string)
    IN  IF Len(temp) > Len(DATES)
        THEN Raise("IndexError", << >>)
        ELSE Return([i \in 1..Len(temp) |-> temp[i][1] = DATES[i][1]])

\* Days.__post_init__: the list `active`, or the IndexError of DATES[index]
\* when the string has more two-character slices than DATES has entries.
DaysPostInit(date_string) ==
    LET temp == DaySlices(date_string)
    IN  IF Len(temp) > Len(DATES)
        THEN Raise("IndexError", << >>)
        ELSE Return([i \in 1..Len(temp) |-> temp[i] = DATES[i]])

\* Days.is_active_on: self.active[day], day >= 0 (a weekday() value)
is_active_on(active, day) ==
    IF day < Len(active) THEN Return(active[day + 1])
                         ELSE Raise("IndexError", FALSE)

\* Days(date_string).is_active_on(day)
DaysIsActiveOn(date_string, day) ==
    LET d == DaysPostInit(date_string)
    IN  IF Returned(d) THEN is_active_on(d.val, day)
                       ELSE Raise(d.exc, FALSE)

-----------------------------------------------------------------------------
(* Parsing of the "HH:MM" strings                                          *)

Digits == <<"0", "1", "2", "3", "4", "5", "6", "7", "8", "9">>

IsDigit(c) == \E d \in 1..Len(Digits) : Digits[d] = c

DigitVal(c) == (CHOOSE d \in 1..Len(Digits) : Digits[d] = c) - 1

AllDigits(s) == \A i \in 1..Len(s) : IsDigit(s[i])

RECURSIVE DecVal(_)
DecVal(s) ==
    IF s = << >> THEN 0
    ELSE DecVal(SubSeq(s, 1, Len(s) - 1)) * 10 + DigitVal(s[Len(s)])

\* int(s) for a str of decimal digits: ValueError for "" and for any other
\* character (the strings of this model hold digits, ":" and "x" only)
int(s) ==
    IF s # << >> /\ AllDigits(s) THEN Return(DecVal(s))
                                 ELSE Raise("ValueError", 0)

\* s.partition(":"): the parts before and after the first ":"
\* (the whole string and "" when there is none)
Cuts(s) == {i \in 1..Len(s) : s[i] = ":"}

FirstCut(s) == CHOOSE i \in Cuts(s) : \A j \in Cuts(s) : i <= j

PartitionHead(s) == IF Cuts(s) = {} THEN s ELSE SubSeq(s, 1, FirstCut(s) - 1)

PartitionTail(s) ==
    IF Cuts(s) = {} THEN << >> ELSE SubSeq(s, FirstCut(s) + 1, Len(s))

SecondsPerMinute == 60 * 1

SecondsPerHour == 60 * SecondsPerMinute

SecondsPerDay == 24 * SecondsPerHour

\* Task.reload_timedelta: timedelta(hours=int(h), minutes=int(m)), in seconds
reload_timedelta(reload_time) ==
    LET reload_hours == int(PartitionHead(reload_time))
        reload_min   == int(PartitionTail(reload_time))
    IN  IF Returned(reload_hours) /\ Returned(reload_min)
        THEN Return(reload_hours.val * SecondsPerHour
                    + reload_min.val * SecondsPerMinute)
        ELSE Raise("ValueError", 0)

\* datetime(*time.strptime(s, "%H:%M")[:6]).time(), in seconds after midnight.
\* %H matches 2[0-3]|[0-1]\d|\d and %M matches [0-5]\d|\d, and the whole
\* string must be consumed: one or two digits, ":", one or two digits, with
\* the hour at most 23 and the minute at most 59; ValueError otherwise.
strptime_HM(s) ==
    LET h == PartitionHead(s)
        m == PartitionTail(s)
    IN  IF /\ Cuts(s) # {}
           /\ Len(h) \in 1..2 /\ AllDigits(h) /\ DecVal(h) <= 23
           /\ Len(m) \in 1..2 /\ AllDigits(m) /\ DecVal(m) <= 59
        THEN Return(DecVal(h) * SecondsPerHour + DecVal(m) * SecondsPerMinute)
        ELSE Raise("ValueError", 0)

-----------------------------------------------------------------------------
(* Instants                                                                *)

\* the calendar date of an instant, as a number of days
DateOf(t) == t \div SecondsPerDay

\* datetime.weekday(): 0 is Monday
Weekday(t) == DateOf(t) % 7

\* datetime.combine(t, time_of_day): the date of t at that time of day
Combine(t, time_of_day) == DateOf(t) * SecondsPerDay + time_of_day

-----------------------------------------------------------------------------
(* Task                                                                    *)

None == << >>

\* Task(...) after __post_init__, for a days string Days() accepts
Task(command, owner, days, time_start, time_end, reload_time) ==
    [ command        |-> command,
      owner          |-> owner,
      days           |-> days,
      time_start     |-> time_start,
      time_end       |-> time_end,
      reload_time    |-> reload_time,
      last_execution |-> None,
      day_bools      |-> [date_string |-> days, active |-> DaysPostInit(days).val] ]

\* A faulty variant of TaskEq: last_execution takes part in the comparison.
TaskEqWithLastExecution(self, other) ==
    /\ self.command = other.command
    /\ self.owner = other.owner
    /\ self.days = other.days
    /\ self.time_start = other.time_start
    /\ self.time_end = other.time_end
    /\ self.reload_time = other.reload_time
    /\ self.last_execution = other.last_execution

\* Task.__eq__
TaskEq(self, other) ==
    /\ self.command = other.command
    /\ self.owner = other.owner
    /\ self.days = other.days
    /\ self.time_start = other.time_start
    /\ self.time_end = other.time_end
    /\ self.reload_time = other.reload_time

\* A faulty variant of is_active_now: the cooldown comparison is not strict.
is_active_now_inclusive_cooldown(self, now) ==
    LET start == strptime_HM(self.time_start)
        end   == strptime_HM(self.time_end)
        delta == reload_timedelta(self.reload_time)
        on    == is_active_on(self.day_bools.active, Weekday(now[1]))
    IN  IF ~Returned(start) THEN Raise(start.exc, FALSE)
        ELSE IF ~Returned(end) THEN Raise(end.exc, FALSE)
        ELSE IF self.last_execution # None /\ ~Returned(delta)
        THEN Raise(delta.exc, FALSE)
        ELSE IF ~Returned(on) THEN Raise(on.exc, FALSE)
        ELSE Return(/\ on.val
                    /\ Combine(now[2], start.val) < now[5]
                    /\ now[5] < Combine(now[3], end.val)
                    /\ \/ self.last_execution = None
                       \/ now[4] - self.last_execution[1] >= delta.val)

\* A faulty variant of is_active_now: the cooldown is not looked at.
is_active_now_ignoring_cooldown(self, now) ==
    LET start == strptime_HM(self.time_start)
        end   == strptime_HM(self.time_end)
        on    == is_active_on(self.day_bools.active, Weekday(now[1]))
    IN  IF ~Returned(start) THEN Raise(start.exc, FALSE)
        ELSE IF ~Returned(end) THEN Raise(end.exc, FALSE)
        ELSE IF ~Returned(on) THEN Raise(on.exc, FALSE)
        ELSE Return(/\ on.val
                    /\ Combine(now[2], start.val) < now[5]
                    /\ now[5] < Combine(now[3], end.val))

\* Task.is_active_now.  now = <<n1, n2, n3, n4, n5>> are the values of the
\* five datetime.now() calls in the order the code makes them: current_time
\* (line 104), the date of interval_start_time (106), the date of
\* interval_end_time (110), the cooldown test (114, made only when
\* last_execution is set) and the window test (121, made only when the
\* weekday is active).
is_active_now(self, now) ==
    LET start == strptime_HM(self.time_start)
        end   == strptime_HM(self.time_end)
        delta == reload_timedelta(self.reload_time)
        on    == is_active_on(self.day_bools.active, Weekday(now[1]))
    IN  IF ~Returned(start) THEN Raise(start.exc, FALSE)
        ELSE IF ~Returned(end) THEN Raise(end.exc, FALSE)
        ELSE IF self.last_execution # None /\ ~Returned(delta)
        THEN Raise(delta.exc, FALSE)
        ELSE IF ~Returned(on) THEN Raise(on.exc, FALSE)
        ELSE LET interval_start_time == Combine(now[2], start.val)
                 interval_end_time   == Combine(now[3], end.val)
                 outside_reload_time ==
                     IF self.last_execution # None
                     THEN now[4] - self.last_execution[1] > delta.val
                     ELSE TRUE
             IN  Return(/\ on.val
                        /\ interval_start_time < now[5]
                        /\ now[5] < interval_end_time
                        /\ outside_reload_time)

-----------------------------------------------------------------------------
(* Bounds and input sets                                                   *)

\* characters a day pattern may hold beyond its fourteenth
MaxExtraChars == 2

\* how many times the clock may be seen to advance within one call
MaxClockJumps == 1

Placeholder == <<"-", "-">>

\* What a pattern may hold for weekday i: its abbreviation, the placeholder,
\* or the abbreviation of the following day.
SliceChoices(i) == << DATES[i], Placeholder, DATES[(i % 7) + 1] >>

PatternOf(f) ==
    [j \in 1..(2 * Len(DATES)) |-> SliceChoices((j + 1) \div 2)[f[(j + 1) \div 2]][2 - (j % 2)]]

\* the 14-character patterns
Patterns14 == {PatternOf(f) : f \in [1..Len(DATES) -> 1..3]}

\* their proper prefixes, of even and of odd length
ShortPatterns == {SubSeq(p, 1, n) : p \in Patterns14, n \in 0..(2 * Len(DATES) - 1)}

ExtraChars(n) == [j \in 1..n |-> DATES[1][2 - (j % 2)]]

\* patterns of more than 14 characters
LongPatterns == {p \o ExtraChars(n) : p \in Patterns14, n \in 1..MaxExtraChars}

DayStrings == Patterns14 \cup ShortPatterns \cup LongPatterns

Str_motuwethfrsasu == PatternOf([i \in 1..Len(DATES) |-> 1])

Str_placeholders == PatternOf([i \in 1..Len(DATES) |-> 2])

\* "mo--we--frsasu", the pattern of the Days doctest
Str_mo__we__frsasu == PatternOf([i \in 1..Len(DATES) |-> IF i \in {2, 4} THEN 2 ELSE 1])

Str_mo == SubSeq(Str_motuwethfrsasu, 1, 2)

Str_0000 == <<"0", "0", ":", "0", "0">>

Str_0001 == <<"0", "0", ":", "0", "1">>

Str_2359 == <<"2", "3", ":", "5", "9">>

Str_2400 == <<"2", "4", ":", "0", "0">>

Str_0100 == <<"0", "1", ":", "0", "0">>

Str_0060 == <<"0", "0", ":", "6", "0">>

Str_1 == <<"1">>

Mon_000000 == 0 * SecondsPerDay

Mon_000030 == Mon_000000 + 30

Mon_000100 == Mon_000000 + SecondsPerMinute

Mon_000130 == Mon_000100 + 30

Mon_235900 == Mon_000000 + 23 * SecondsPerHour + 59 * SecondsPerMinute

Tue_000000 == 1 * SecondsPerDay

Tue_000030 == Tue_000000 + 30

\* the instants datetime.now() may return in a call under test
Instants == {Mon_000000, Mon_000030, Mon_000100, Mon_000130, Mon_235900,
             Tue_000000, Tue_000030}

\* the values of five successive datetime.now() calls: the clock never goes
\* back, and is seen to advance at most MaxClockJumps times
ReadSeqs ==
    {now \in [1..5 -> Instants] :
        /\ \A i \in 1..4 : now[i] <= now[i + 1]
        /\ Cardinality({i \in 1..4 : now[i] < now[i + 1]}) <= MaxClockJumps}

Stamped(task, le) == [task EXCEPT !.last_execution = le]

-----------------------------------------------------------------------------
(* Calls under test: every variable of the scheduling loop is at rest      *)

NoRet == Raise("pending", FALSE)

AtRest ==
    /\ tasks = << >> /\ check_interval = 0 /\ clock = 0 /\ cycle = 0
    /\ batch = << >> /\ handed = 0 /\ running = {} /\ results = << >>
    /\ updated_tasks = << >> /\ log = << >> /\ history = {}

\* Days(date_string).is_active_on(day) for every pattern and weekday
InitDays ==
    /\ AtRest /\ pc = "call" /\ ret = NoRet
    /\ call \in [date_string : DayStrings, day : 0..(Len(DATES) - 1)]

CallDaysIsActiveOn ==
    /\ pc = "call"
    /\ ret' = DaysIsActiveOn(call.date_string, call.day)
    /\ pc' = "return"
    /\ UNCHANGED << sched, call >>

NextDays == CallDaysIsActiveOn

SpecDays == InitDays /\ [][NextDays]_vars

\* Days(date_string), the construction alone, for every pattern
InitMask ==
    /\ AtRest /\ pc = "call" /\ ret = NoRet
    /\ call \in [date_string : DayStrings]

CallDaysPostInit ==
    /\ pc = "call"
    /\ ret' = DaysPostInit(call.date_string)
    /\ pc' = "return"
    /\ UNCHANGED << sched, call >>

NextMask == CallDaysPostInit

SpecMask == InitMask /\ [][NextMask]_vars

\* task.is_active_now() for a catalogue of tasks and clock readings
ActiveDays == {Str_motuwethfrsasu, Str_mo__we__frsasu, Str_placeholders, Str_mo,
               SubSeq(Str_motuwethfrsasu, 1, 12)}

ActiveWindows == { <<Str_0000, Str_0001>>, <<Str_0000, Str_2359>>,
                   <<Str_2359, Str_0001>>, <<Str_0001, Str_0001>>,
                   <<Str_2400, Str_0001>> }

ActiveReloadTimes == {Str_0001, Str_0000, Str_1}

ActiveLastExecutions == {None, <<Mon_000030 - 1>>, <<Mon_000030>>, <<Mon_000030 + 1>>}

ActiveTasks ==
    {Stamped(Task("ls", "zt", d, w[1], w[2], r), le) :
        d \in ActiveDays, w \in ActiveWindows, r \in ActiveReloadTimes,
        le \in ActiveLastExecutions}

InitActive ==
    /\ AtRest /\ pc = "call" /\ ret = NoRet
    /\ call \in [self : ActiveTasks, now : ReadSeqs]

CallIsActiveNow ==
    /\ pc = "call"
    /\ ret' = is_active_now(call.self, call.now)
    /\ pc' = "return"
    /\ UNCHANGED << sched, call >>

NextActive == CallIsActiveNow

SpecActive == InitActive /\ [][NextActive]_vars

\* self == other for pairs of task records
EqTasks ==
    {Stamped(Task(c, o, d, ts, te, r), le) :
        c \in {"ls", "pwd"}, o \in {"zt", "root"},
        d \in {Str_motuwethfrsasu, Str_mo__we__frsasu},
        ts \in {Str_0000, Str_0001}, te \in {Str_0001, Str_2359},
        r \in {Str_0100, Str_0060, Str_0001}, le \in {None, <<Mon_000030>>}}

InitEq ==
    /\ AtRest /\ pc = "call" /\ ret = NoRet
    /\ call \in [self : EqTasks, other : EqTasks]

CallEq ==
    /\ pc = "call"
    /\ ret' = Return(TaskEq(call.self, call.other))
    /\ pc' = "return"
    /\ UNCHANGED << sched, call >>

NextEq == CallEq

SpecEq == InitEq /\ [][NextEq]_vars

-----------------------------------------------------------------------------
(* run_task and Runner.run                                                 *)

\* multiprocessing.Pool(4)
PoolSize == 4

\* records in the task file
MaxTasks == 2

\* iterations of the while loop
MaxCycles == 2

\* How a subprocess.run(command, shell=True, check=False) may end: an exit
\* status of zero, a non-zero exit status, or the shell not being started.
Outcomes == {"0", "1", "OSError"}

\* seconds a command may take, counted from the previous event of the batch
Durations == {0, 31}

\* How the shell command of a record may end and how long it may take: "true"
\* and "sleep 31" exit with status zero, at once and after 31 seconds (the
\* shell being there to start them); of any other command nothing is known.
ExitsOf(command) ==
    IF command \in {"true", "sleep 31"} THEN {"0"} ELSE Outcomes

DurationsOf(command) ==
    IF command = "true" THEN {0}
    ELSE IF command = "sleep 31" THEN {31}
    ELSE Durations

\* A faulty variant of run_task: last_execution is stamped after a zero exit only.
run_task_stamp_on_success(task, outcome, finished) ==
    IF outcome = "OSError"
    THEN Raise("OSError", task)
    ELSE IF outcome = "0"
    THEN Return([task EXCEPT !.last_execution = <<finished>>])
    ELSE Return(task)

\* A faulty variant of run_task: the stamp is one second after the command's end.
run_task_stamp_late(task, outcome, finished) ==
    IF outcome = "OSError"
    THEN Raise("OSError", task)
    ELSE Return([task EXCEPT !.last_execution = <<finished + 1>>])

\* run_task, in a worker process, on the worker's own copy of the record:
\* check=False, so no exit status raises; the record comes back stamped with
\* the instant the command finished.  An exception of subprocess.run itself
\* travels back to pool.map.
run_task(task, outcome, finished) ==
    IF outcome = "OSError"
    THEN Raise("OSError", task)
    ELSE Return([task EXCEPT !.last_execution = <<finished>>])

HasEqual(list, x) == \E i \in 1..Len(list) : TaskEq(list[i], x)

FirstEqual(list, x) ==
    CHOOSE i \in 1..Len(list) :
        TaskEq(list[i], x) /\ \A j \in 1..(i - 1) : ~TaskEq(list[j], x)

\* A faulty variant of ListRemove: every equal entry is removed.
ListRemoveAll(list, x) == SelectSeq(list, LAMBDA t : ~TaskEq(t, x))

\* list.remove(x) when an entry equals x: the first such entry goes
ListRemove(list, x) ==
    SubSeq(list, 1, FirstEqual(list, x) - 1)
    \o SubSeq(list, FirstEqual(list, x) + 1, Len(list))

\* A faulty variant of Reconcile: the updated record is appended, nothing is removed.
RECURSIVE ReconcileAppendOnly(_, _)
ReconcileAppendOnly(master, updated) ==
    IF updated = << >> THEN Return(master)
    ELSE ReconcileAppendOnly(Append(master, Head(updated)), Tail(updated))

\* for task in updated_tasks: self.tasks.remove(task); self.tasks.append(task)
\* list.remove raises ValueError when no entry equals the task.
RECURSIVE Reconcile(_, _)
Reconcile(master, updated) ==
    IF updated = << >> THEN Return(master)
    ELSE IF ~HasEqual(master, Head(updated)) THEN Raise("ValueError", master)
    ELSE Reconcile(Append(ListRemove(master, Head(updated)), Head(updated)),
                   Tail(updated))

\* the entries of list at the indices in keep, in order
RECURSIVE Pick(_, _, _)
Pick(list, keep, i) ==
    IF i > Len(list) THEN << >>
    ELSE (IF i \in keep THEN << list[i] >> ELSE << >>) \o Pick(list, keep, i + 1)

\* What the datetime.now() calls of one is_active_now return in the loop:
\* the evaluation of the list comprehension is taken to happen at one
\* instant of the clock (SpecActive is where the clock advances in a call).
NowAt(t) == [r \in 1..5 |-> t]

\* tasks = [task for task in self.tasks if task.is_active_now()].  An
\* exception of is_active_now leaves run().
Select ==
    /\ pc = "select" /\ cycle < MaxCycles
    /\  LET active   == [i \in 1..Len(tasks) |-> is_active_now(tasks[i], NowAt(clock))]
            raising  == {i \in 1..Len(tasks) : ~Returned(active[i])}
            first    == CHOOSE i \in raising : \A j \in raising : i <= j
            selected == Pick(tasks, {i \in 1..Len(tasks) : active[i].val}, 1)
        IN  /\ clock' = clock
            /\ IF raising = {}
               THEN /\ batch' = selected
                    /\ results' = [i \in 1..Len(selected) |-> NoRet]
                    /\ log' = [i \in 1..Len(selected) |-> << >>]
                    /\ pc' = "dispatch"
                    /\ ret' = ret
               ELSE /\ pc' = "raised"
                    /\ ret' = Raise(active[first].exc, FALSE)
                    /\ UNCHANGED << batch, results, log >>
    /\ cycle' = cycle + 1
    /\ handed' = 0
    /\ UNCHANGED << tasks, check_interval, running, updated_tasks, history, call >>

\* pool.map hands the next record of the batch to an idle worker (chunks of
\* one record: divmod(len(tasks), 16) for up to 16 records); the worker
\* unpickles its copy and starts the command.
Hand ==
    /\ pc = "dispatch"
    /\ handed < Len(batch)
    /\ Cardinality(running) < PoolSize
    /\ handed' = handed + 1
    /\ running' = running \cup {handed + 1}
    /\ log' = [log EXCEPT ![handed + 1] =
                  Append(@, [started |-> clock, finished |-> None, status |-> ""])]
    /\ UNCHANGED << tasks, check_interval, clock, pc, cycle, batch, results,
                    updated_tasks, history, call, ret >>

\* the fields of a record that make its definition: all but last_execution
Definition(task) == [task EXCEPT !.last_execution = None]

\* the history once a command of the record task has ended at the instant t
Ended(h, task, t) ==
    {e \in h : e.task # Definition(task)}
    \cup {[task |-> Definition(task), finished |-> t]}

\* A faulty variant of ParentAfterWorker: the worker assigns to the very
\* record the master list holds (as a thread of the same process would).
ParentSharedWithWorker(master, task, finished) ==
    [j \in 1..Len(master) |->
        IF master[j] = task THEN [master[j] EXCEPT !.last_execution = <<finished>>]
                            ELSE master[j]]

\* The master list after run_task's assignment task.last_execution = ... in a
\* worker: pool.map pickles each record to a worker process, the assignment
\* is made on the worker's copy, and the parent's records stay as they are.
ParentAfterWorker(master, task, finished) == master

\* A worker's command ends and run_task returns or raises; the outcome is
\* sent back to the pool.
Finish(i) ==
    /\ pc = "dispatch"
    /\ i \in running
    /\ \E d \in DurationsOf(batch[i].command), outcome \in ExitsOf(batch[i].command) :
        /\ clock' = clock + d
        /\ results' = [results EXCEPT ![i] = run_task(batch[i], outcome, clock + d)]
        /\ log' = [log EXCEPT ![i][Len(log[i])] =
                      [@ EXCEPT !.finished = <<clock + d>>, !.status = outcome]]
        /\ history' = IF outcome = "OSError" THEN history
                       ELSE Ended(history, batch[i], clock + d)
        /\ tasks' = ParentAfterWorker(tasks, batch[i], clock + d)
    /\ running' = running \ {i}
    /\ UNCHANGED << check_interval, pc, cycle, batch, handed,
                    updated_tasks, call, ret >>

\* A faulty variant of MapReturn: pool.map returns the records that have come
\* back as soon as every record is handed out, without waiting for the rest.
MapReturnWithoutWaiting ==
    /\ pc = "dispatch"
    /\ handed = Len(batch)
    /\ updated_tasks' = Pick([i \in 1..Len(batch) |-> results[i].val],
                             {i \in 1..Len(batch) : Returned(results[i])}, 1)
    /\ pc' = "reconcile"
    /\ UNCHANGED << tasks, check_interval, clock, cycle, batch, handed, running,
                    results, log, history, call, ret >>

\* pool.map returns once every record of the batch has an outcome: the list
\* of returned records, or it raises an exception a worker sent back.
MapReturn ==
    /\ pc = "dispatch"
    /\ handed = Len(batch) /\ running = {}
    /\ IF \A i \in 1..Len(batch) : Returned(results[i])
       THEN /\ updated_tasks' = [i \in 1..Len(batch) |-> results[i].val]
            /\ pc' = "reconcile"
            /\ ret' = ret
       ELSE /\ pc' = "raised"
            /\ ret' = Raise("OSError", FALSE)
            /\ UNCHANGED updated_tasks
    /\ UNCHANGED << tasks, check_interval, clock, cycle, batch, handed, running,
                    results, log, history, call >>

\* the loop over updated_tasks (lines 160-162)
ReconcileStep ==
    /\ pc = "reconcile"
    /\ LET r == Reconcile(tasks, updated_tasks)
       IN  /\ tasks' = r.val
           /\ IF Returned(r) THEN pc' = "sleep" /\ ret' = ret
                             ELSE pc' = "raised" /\ ret' = Raise(r.exc, FALSE)
    /\ UNCHANGED << check_interval, clock, cycle, batch, handed, running,
                    results, updated_tasks, log, history, call >>

\* time.sleep(self.config["check_interval"]); tasks = []
Sleep ==
    /\ pc = "sleep"
    /\ clock' = clock + check_interval
    /\ batch' = << >>
    /\ pc' = "select"
    /\ UNCHANGED << tasks, check_interval, cycle, handed, running, results,
                    updated_tasks, log, history, call, ret >>

\* the rows of the task file
TaskRows ==
    { <<"ls", "zt", Str_motuwethfrsasu, Str_0000, Str_2359, Str_0001>>,
      <<"id", "zt", Str_mo, Str_0000, Str_0001, Str_0001>> }

\* Runner.load_tasks: one Task per row, in the order of the file
LoadTasks(rows) ==
    [i \in 1..Len(rows) |->
        Task(rows[i][1], rows[i][2], rows[i][3], rows[i][4], rows[i][5], rows[i][6])]

TaskFiles == UNION {[1..n -> TaskRows] : n \in 1..MaxTasks}

CheckIntervals == {30, 61}

StartClocks == {Mon_000030, Tue_000030}

Init ==
    /\ tasks \in {LoadTasks(rows) : rows \in TaskFiles}
    /\ check_interval \in CheckIntervals
    /\ clock \in StartClocks
    /\ pc = "select"
    /\ cycle = 0
    /\ batch = << >>
    /\ handed = 0
    /\ running = {}
    /\ results = << >>
    /\ updated_tasks = << >>
    /\ log = << >>
    /\ history = {}
    /\ call = << >>
    /\ ret = NoRet

Next ==
    \/ Select
    \/ Hand
    \/ \E i \in 1..MaxTasks : Finish(i)
    \/ MapReturn
    \/ ReconcileStep
    \/ Sleep

Spec == Init /\ [][Next]_vars

\* Every step of the loop that can be taken is taken in the end: the
\* coordinator runs on, the pool hands a waiting record to an idle worker,
\* and every command a worker started ends.
FairSpec ==
    /\ Spec
    /\ WF_vars(Select)
    /\ WF_vars(Hand)
    /\ WF_vars(\E i \in 1..MaxTasks : Finish(i))
    /\ WF_vars(MapReturn)
    /\ WF_vars(ReconcileStep)
    /\ WF_vars(Sleep)

\* A task file with one row more than the pool has workers, each of its own
\* owner: as many "sleep 31" as there are workers, then one "true", all in
\* the window 00:00-00:01 of every day; the file is read on a Monday at
\* 00:00:30.
Owners == <<"u1", "u2", "u3", "u4", "u5">>

PoolRows ==
    [i \in 1..(PoolSize + 1) |->
        << IF i <= PoolSize THEN "sleep 31" ELSE "true", Owners[i],
           Str_motuwethfrsasu, Str_0000, Str_0001, Str_0001 >>]

InitPool ==
    /\ tasks = LoadTasks(PoolRows)
    /\ check_interval = 61
    /\ clock = Mon_000030
    /\ pc = "select"
    /\ cycle = 0
    /\ batch = << >>
    /\ handed = 0
    /\ running = {}
    /\ results = << >>
    /\ updated_tasks = << >>
    /\ log = << >>
    /\ history = {}
    /\ call = << >>
    /\ ret = NoRet

NextPool ==
    \/ Select
    \/ Hand
    \/ \E i \in 1..(PoolSize + 1) : Finish(i)
    \/ MapReturn
    \/ ReconcileStep
    \/ Sleep

SpecPool == InitPool /\ [][NextPool]_vars

-----------------------------------------------------------------------------
(* Claims                                                                  *)

\* every datetime.now() of the call under test returned the instant n
ReadAt(n) == call.now = [i \in 1..5 |-> n]

\* the three "HH:MM" strings of the task under test are well formed
WellFormedTimes ==
    /\ Returned(strptime_HM(call.self.time_start))
    /\ Returned(strptime_HM(call.self.time_end))
    /\ Returned(reload_timedelta(call.self.reload_time))

\* the window of the task under test on the day of the instant n
WindowStart(n) == Combine(n, strptime_HM(call.self.time_start).val)

WindowEnd(n) == Combine(n, strptime_HM(call.self.time_end).val)

\* the mask of the task under test has an entry for the weekday of n, and it
\* is set
WeekdayActive(n) ==
    /\ Weekday(n) < Len(call.self.day_bools.active)
    /\ call.self.day_bools.active[Weekday(n) + 1]

\* C1: for every 14-character pattern and weekday d, Days(pattern)
\* .is_active_on(d) returns True exactly when characters 2d and 2d+1 of the
\* pattern are the abbreviation of day d; the all-placeholder pattern is
\* inactive on every day.
C1_MaskMatchesAbbreviations ==
    (pc = "return" /\ Len(call.date_string) = 14) =>
        /\ ret = Return(<< call.date_string[2 * call.day + 1],
                           call.date_string[2 * call.day + 2] >>
                        = DATES[call.day + 1])
        /\ (\A j \in 1..14 : call.date_string[j] = "-") => ret = Return(FALSE)

\* C1 witness: the doctest pattern "mo--we--frsasu" is active on Wednesday.
C1_Witness ==
    /\ pc = "return" /\ call.date_string = Str_mo__we__frsasu
    /\ call.day = 2 /\ ret = Return(TRUE)

\* C2 (as claimed): for every task with well-formed times, is_active_now is
\* False at the start instant and at the end instant of today's window, and
\* True strictly between them when the weekday is active and there is no
\* prior execution.
C2_StrictWindow ==
    (pc = "return" /\ WellFormedTimes) =>
        \A n \in Instants : ReadAt(n) =>
            /\ (n = WindowStart(n) \/ n = WindowEnd(n)) => ret = Return(FALSE)
            /\ ( /\ WindowStart(n) < n /\ n < WindowEnd(n)
                 /\ WeekdayActive(n)
                 /\ call.self.last_execution = None ) => ret = Return(TRUE)

\* C3: for a task whose weekday is active and whose window is open at now,
\* is_active_now is False when now - last_execution equals the cooldown and
\* True when it exceeds it; with no last_execution it is True (a one-minute
\* reload time is a cooldown of 60 seconds).
C3_StrictCooldown ==
    pc = "return" =>
        \A n \in Instants :
            ( /\ ReadAt(n) /\ WeekdayActive(n)
              /\ Returned(strptime_HM(call.self.time_start))
              /\ Returned(strptime_HM(call.self.time_end))
              /\ WindowStart(n) < n /\ n < WindowEnd(n) ) =>
                /\ call.self.last_execution = None => ret = Return(TRUE)
                /\ ( /\ call.self.last_execution # None
                     /\ Returned(reload_timedelta(call.self.reload_time)) ) =>
                       LET elapsed  == n - call.self.last_execution[1]
                           cooldown == reload_timedelta(call.self.reload_time).val
                       IN  /\ elapsed = cooldown => ret = Return(FALSE)
                           /\ elapsed > cooldown => ret = Return(TRUE)
                           /\ call.self.reload_time = Str_0001 =>
                                ret = Return(elapsed > 60)

\* C3 witness: a task run at 00:00:30 with a one-minute cooldown is asked at
\* 00:01:30, exactly one cooldown later, inside its window on an active day.
C3_Witness ==
    /\ pc = "return" /\ ReadAt(Mon_000130)
    /\ call.self.last_execution = <<Mon_000030>>
    /\ call.self.reload_time = Str_0001
    /\ call.self.days = Str_motuwethfrsasu
    /\ call.self.time_start = Str_0000 /\ call.self.time_end = Str_2359
    /\ ret = Return(FALSE)

\* the fields of the two records under comparison other than reload_time
\* are equal
SameOtherFields ==
    /\ call.self.command = call.other.command
    /\ call.self.owner = call.other.owner
    /\ call.self.days = call.other.days
    /\ call.self.time_start = call.other.time_start
    /\ call.self.time_end = call.other.time_end

\* C4 (as claimed): two records are equal exactly when command, owner, days,
\* window start, window end and the cooldown duration are equal.
C4_EqualIffSameCooldown ==
    pc = "return" =>
        ret = Return(/\ SameOtherFields
                     /\ reload_timedelta(call.self.reload_time)
                        = reload_timedelta(call.other.reload_time))

\* C4 (amended): two records are equal exactly when command, owner, days,
\* time_start, time_end and the reload_time string are equal; equal records
\* have the same cooldown; last_execution plays no part.
C4_EqualIffSameStrings ==
    pc = "return" =>
        /\ ret = Return(/\ SameOtherFields
                        /\ call.self.reload_time = call.other.reload_time)
        /\ ret = Return(TRUE) =>
              reload_timedelta(call.self.reload_time)
              = reload_timedelta(call.other.reload_time)

\* C4 witness: a record and its copy stamped by an execution compare equal.
C4_Witness ==
    /\ pc = "return"
    /\ call.self.last_execution = None
    /\ call.other = Stamped(call.self, <<Mon_000030>>)
    /\ ret = Return(TRUE)

\* how many entries of list are the record r, last_execution included
Count(list, r) == Cardinality({i \in 1..Len(list) : list[i] = r})

\* no two entries of list have equal definitions
DistinctDefinitions(list) ==
    \A i, j \in 1..Len(list) : i # j => ~TaskEq(list[i], list[j])

\* the cooldown of a record that has run is exceeded at the instant t
CooldownExceeded(task, t) ==
    t - task.last_execution[1] > reload_timedelta(task.reload_time).val

\* the record of batch entry i as its run stamped it
StampedByRun(i) == [batch[i] EXCEPT !.last_execution = log[i][1].finished]

\* C5: the master list has the same number of records after every step of
\* every cycle, Reconcile included, for every task file (also one with equal
\* rows).
C5_CardinalityConstant == [][Len(tasks') = Len(tasks)]_vars

\* C5 witness: a Reconcile has run on a master list of two records with equal
\* definitions, of which one was dispatched.
C5_Witness ==
    /\ pc = "sleep" /\ Len(tasks) = 2 /\ TaskEq(tasks[1], tasks[2])
    /\ Len(updated_tasks) = 1

\* C6: in a cycle on a master list of pairwise distinct definitions, every
\* selected record is handed to a worker exactly once, in whatever order the
\* workers start and finish, and after Reconcile the master list holds exactly
\* one record of its definition, stamped with the instant its run finished.
C6_EachSelectedRunOnceAndKept ==
    /\ [](\A i \in DOMAIN log : Len(log[i]) <= 1)
    /\ [](pc \in {"reconcile", "sleep"} =>
            \A i \in 1..Len(batch) : Len(log[i]) = 1 /\ log[i][1].finished # None)
    /\ [][(pc = "reconcile" /\ DistinctDefinitions(tasks)) =>
            /\ pc' = "sleep"
            /\ \A i \in 1..Len(batch) :
                  /\ Cardinality({j \in 1..Len(tasks') : TaskEq(tasks'[j], batch[i])}) = 1
                  /\ Count(tasks', StampedByRun(i)) = 1
                  /\ Count(tasks', batch[i]) = 0]_vars

\* C6 witness: two records of distinct definitions were run, the second one
\* finishing first, and reconciled.
C6_Witness ==
    /\ pc = "sleep" /\ Len(batch) = 2 /\ DistinctDefinitions(tasks)
    /\ log[2][1].finished[1] < log[1][1].finished[1]

\* C7 (as claimed): Select puts in the batch exactly the records whose
\* is_active_now is True, and Reconcile keeps every record that is not in the
\* batch, with its last_execution, whether or not definitions repeat.
C7_NotDispatchedUntouched ==
    [][ /\ (pc = "select" /\ pc' = "dispatch") =>
              \A i \in 1..Len(tasks) :
                  Count(batch', tasks[i]) =
                      IF is_active_now(tasks[i], NowAt(clock)).val
                      THEN Count(tasks, tasks[i]) ELSE 0
        /\ pc = "reconcile" =>
              \A i \in 1..Len(tasks) :
                  Count(tasks', tasks[i])
                      >= Count(tasks, tasks[i]) - Count(batch, tasks[i]) ]_vars

\* C8: a command that exits with a non-zero status makes run_task return (not
\* raise) the record stamped with the instant the command finished; Reconcile
\* puts that record in the master list; and a record that has run is selected
\* only when its cooldown is exceeded, in the Select that follows a failed
\* run as in any other.
C8_FailedRunStampedAndCooledDown ==
    [][ /\ \A i \in DOMAIN log' :
              ( /\ i \in DOMAIN log /\ log[i] # << >> /\ log[i][1].status = ""
                /\ log'[i][1].status = "1" ) =>
                    /\ results'[i] =
                          Return([batch[i] EXCEPT !.last_execution = <<clock'>>])
                    /\ log'[i][1].finished = <<clock'>>
        /\ pc = "reconcile" =>
              \A i \in 1..Len(batch) :
                  log[i][1].status = "1" => Count(tasks', StampedByRun(i)) >= 1
        /\ (pc = "select" /\ pc' = "dispatch") =>
              /\ \A k \in 1..Len(batch') :
                    batch'[k].last_execution # None =>
                        CooldownExceeded(batch'[k], clock')
              /\ \A i \in 1..Len(batch) :
                    ( /\ log[i][1].status = "1"
                      /\ ~CooldownExceeded(StampedByRun(i), clock') ) =>
                          Count(batch', StampedByRun(i)) = 0 ]_vars

\* C8 witness: a command exited with a non-zero status and its record, stamped
\* with the finishing instant, has been reconciled into the master list.
C8_Witness ==
    /\ pc = "sleep" /\ Len(batch) >= 1
    /\ log[1][1].status = "1"
    /\ Count(tasks, StampedByRun(1)) = 1

\* C9 (as claimed): no failure of one task (the shell not starting in
\* run_task, is_active_now raising on a malformed definition) ends the loop:
\* run() is never left by an exception.
C9_FailureNeverEndsLoop == pc # "raised"

\* C10 (as claimed): for a task with well-formed times whose day pattern is
\* shorter than 14 characters, is_active_now returns False on a weekday at
\* or beyond the length of its mask.
C10_ShortPatternInactive ==
    ( /\ pc = "return" /\ WellFormedTimes
      /\ Len(call.self.days) < 14
      /\ Weekday(call.now[1]) >= Len(call.self.day_bools.active) ) =>
        ret = Return(FALSE)

\* C11 (as claimed): Days(date_string) is built without an exception for every
\* string (empty, odd length, shorter or longer than 14 characters), and the
\* mask is False wherever it has an entry whose slice is not the abbreviation.
C11_MaskNeverRaises ==
    pc = "return" =>
        /\ Returned(ret)
        /\ \A d \in 0..(Len(DATES) - 1) :
              (d < Len(ret.val) /\ Slice2(call.date_string, 2 * d) # DATES[d + 1])
                  => ~ret.val[d + 1]

\* every run a worker has begun in this cycle has finished
AllRunsFinished ==
    \A i \in DOMAIN log : \A k \in 1..Len(log[i]) : log[i][k].finished # None

\* C12: cycles never overlap.  Outside Dispatch no worker is executing;
\* Reconcile is entered only from Dispatch, with every record of the batch
\* handed out and its run finished; Idle only from Reconcile; the next Select
\* only from Idle; and a Select begins with no command of an earlier cycle
\* still running.
C12_CyclesNeverOverlap ==
    /\ [](pc # "dispatch" => running = {})
    /\ [](pc \in {"reconcile", "sleep", "select"} => AllRunsFinished)
    /\ [](pc \in {"reconcile", "sleep"} =>
            /\ handed = Len(batch)
            /\ \A i \in 1..Len(batch) : Len(log[i]) = 1)
    /\ [][ /\ (pc' = "reconcile" /\ pc # "reconcile") => pc = "dispatch"
           /\ (pc' = "sleep" /\ pc # "sleep") => pc = "reconcile"
           /\ (pc' = "select" /\ pc # "select") => pc = "sleep"
           /\ cycle' # cycle =>
                 /\ pc = "select" /\ cycle' = cycle + 1
                 /\ running = {} /\ AllRunsFinished ]_vars

\* C12 witness: a worker is executing a command of the second cycle, the
\* master list holding a record the first cycle stamped.
C12_Witness ==
    /\ cycle = 2 /\ pc = "dispatch" /\ running # {}
    /\ \E j \in 1..Len(tasks) : tasks[j].last_execution # None

\* C13: while the pool is at work the master list does not change: a
\* worker's stamp is on the record it sends back, the master list and the
\* batch keep their records with their last_execution, and the master list
\* (membership, order, every last_execution) changes in the Reconcile step
\* only.
C13_MasterChangedOnlyByReconcile ==
    [][ /\ tasks' # tasks => pc = "reconcile"
        /\ pc = "dispatch" =>
              /\ tasks' = tasks /\ batch' = batch
              /\ \A i \in DOMAIN results :
                    (results'[i] # results[i] /\ Returned(results'[i])) =>
                        /\ results'[i].val.last_execution = <<clock'>>
                        /\ TaskEq(results'[i].val, batch[i]) ]_vars

\* C13 witness: in the first cycle a worker has sent back a stamped record
\* while another is still executing, and no record of the master list bears a
\* stamp.
C13_Witness ==
    /\ pc = "dispatch" /\ cycle = 1 /\ running # {}
    /\ \E i \in 1..Len(batch) :
          Returned(results[i]) /\ results[i].val.last_execution # None
    /\ \A j \in 1..Len(tasks) : tasks[j].last_execution = None

\* the conjunction "weekday active, window open, cooldown exceeded" for the
\* task under test, all three evaluated at the one instant n
ActiveAt(n) ==
    /\ WeekdayActive(n)
    /\ WindowStart(n) < n /\ n < WindowEnd(n)
    /\ \/ call.self.last_execution = None
       \/ n - call.self.last_execution[1]
              > reload_timedelta(call.self.reload_time).val

\* The instants at which ActiveAt may change its value between lo and hi
\* (midnight, the two ends of the window of each day, the end of the
\* cooldown), each with its two neighbours, and lo and hi themselves:
\* ActiveAt is constant between two consecutive ones, so it takes a value
\* somewhere in lo..hi exactly when it takes it at one of these.
ReferenceInstants(lo, hi) ==
    LET days   == DateOf(lo)..DateOf(hi)
        breaks == {D * SecondsPerDay : D \in days}
                  \cup {WindowStart(D * SecondsPerDay) : D \in days}
                  \cup {WindowEnd(D * SecondsPerDay) : D \in days}
                  \cup (IF call.self.last_execution = None THEN {}
                        ELSE {call.self.last_execution[1]
                              + reload_timedelta(call.self.reload_time).val})
    IN  {n \in {lo, hi} \cup {b + e : b \in breaks, e \in {-1, 0, 1}} :
            lo <= n /\ n <= hi}

\* C14 (as claimed): whatever the five clock reads of one is_active_now
\* return, the call's result is the value of the conjunction at some single
\* instant between the first and the last read.
C14_EqualsSingleInstant ==
    (pc = "return" /\ WellFormedTimes /\ Returned(ret)) =>
        \E n \in ReferenceInstants(call.now[1], call.now[5]) :
            ret = Return(ActiveAt(n))

\* C19 (as claimed): a task whose time_start is not earlier than its time_end
\* (equal, or written across midnight) is found active by no call of
\* is_active_now, whatever the clock reads of the call return.
C19_InvertedWindowNeverActive ==
    ( /\ pc = "return"
      /\ Returned(strptime_HM(call.self.time_start))
      /\ Returned(strptime_HM(call.self.time_end))
      /\ strptime_HM(call.self.time_start).val
            >= strptime_HM(call.self.time_end).val ) =>
        ret # Return(TRUE)

\* C15: on a master list of pairwise distinct definitions, whenever a record
\* is handed to a worker and a command of its definition has ended before
\* (with whatever exit status), the record bears that ending instant and the
\* new command starts more than the cooldown after it.
C15_StartsAfterCooldown ==
    [][ (pc = "dispatch" /\ handed' = handed + 1 /\ DistinctDefinitions(tasks)) =>
            \A e \in history :
                e.task = Definition(batch[handed']) =>
                    /\ batch[handed'].last_execution = <<e.finished>>
                    /\ log'[handed'][1].started - e.finished
                          > reload_timedelta(e.task.reload_time).val ]_vars

\* C15 witness: in the second cycle a command starts for a record of a master
\* list of distinct definitions whose earlier command has ended.
C15_Witness ==
    /\ pc = "dispatch" /\ cycle = 2 /\ handed >= 1
    /\ Len(tasks) = 2 /\ DistinctDefinitions(tasks)
    /\ \E e \in history : e.task = Definition(batch[1])
    /\ log[1][1].started > batch[1].last_execution[1]

\* how many entries of list have the definition of the record r
DefinitionCount(list, r) ==
    Cardinality({i \in 1..Len(list) : Definition(list[i]) = Definition(r)})

\* C17: every step keeps the multiset of definitions of the master list
\* (command, owner, days, time_start, time_end, reload_time and the mask
\* day_bools): no record is added or dropped.  A record the step brings in
\* differs from one it takes out in last_execution only, and its
\* last_execution is the instant at which a command of that definition ended
\* in this cycle.
C17_DefinitionsNeverChange ==
    [][ /\ Len(tasks') = Len(tasks)
        /\ \A i \in 1..Len(tasks) :
              DefinitionCount(tasks', tasks[i]) = DefinitionCount(tasks, tasks[i])
        /\ \A j \in 1..Len(tasks') :
              Count(tasks', tasks'[j]) > Count(tasks, tasks'[j]) =>
                  /\ DefinitionCount(tasks, tasks'[j]) >= 1
                  /\ \E i \in 1..Len(batch) :
                        /\ Definition(batch[i]) = Definition(tasks'[j])
                        /\ log[i][1].finished # None
                        /\ log[i][1].status # "OSError"
                        /\ tasks'[j].last_execution = log[i][1].finished ]_vars

\* C17 witness: a Reconcile has replaced both records of a master list, one
\* of them for the second time.
C17_Witness ==
    /\ pc = "sleep" /\ cycle = 2 /\ Len(tasks) = 2 /\ Len(batch) = 2
    /\ \A j \in 1..2 : tasks[j].last_execution # None
    /\ \E i \in 1..2 : batch[i].last_execution # None

\* the window of the record task is open at the instant n, on a weekday its
\* mask has set
WindowOpenAt(task, n) ==
    /\ Weekday(n) < Len(task.day_bools.active)
    /\ task.day_bools.active[Weekday(n) + 1]
    /\ Combine(n, strptime_HM(task.time_start).val) < n
    /\ n < Combine(n, strptime_HM(task.time_end).val)

\* C16 (as claimed): whenever a record of the batch is handed to a worker and
\* its command starts, the record's window is open at that instant, also for
\* a record that waited for a worker or behind a long command.
C16_StartsInsideWindow ==
    [][ (pc = "dispatch" /\ handed' = handed + 1) =>
            WindowOpenAt(batch[handed'], log'[handed'][1].started) ]_vars

\* the fifth record of a batch started after its window closed, the first
\* four having started at the instant of the Select and occupied the pool
LateForLackOfWorker ==
    /\ pc = "dispatch" /\ handed = PoolSize + 1
    /\ \A i \in 1..PoolSize : log[i][1].started = Mon_000030
    /\ ~WindowOpenAt(batch[PoolSize + 1], log[PoolSize + 1][1].started)

\* C18 (as claimed): the loop has no terminal state: when every command that
\* is started ends, a cycle that has left Select goes through Dispatch,
\* Reconcile and Idle, and the coordinator stands at the next Select again.
C18_NextSelectAlwaysBegins == (pc # "select") ~> (pc = "select")

\* the same, for the runs of the loop in which no exception is raised
NextSelectUnlessRaised == <>(pc = "raised") \/ C18_NextSelectAlwaysBegins

====
